---- MODULE Spec2Model ----
(***************************************************************************)
(* Hybrid search service (src/api/search_service.py): the /search handler  *)
(* and the memoised embedding lookup embed_cached.                         *)
(*                                                                         *)
(* search_service.py as committed is a conflicted merge (duplicated        *)
(* blocks, broken indentation after line 671, `results` never initialised).*)
(* The model follows its statements in textual order, with the candidate   *)
(* loop of lines 679-722 read as one loop body and `results` starting      *)
(* empty.                                                                  *)
(*                                                                         *)
(* Text is modelled as a sequence of one-character strings, so that        *)
(* lower(), strip(), the token regex and the substring test are computed.  *)
(* Scores (Python floats) are exact rationals [n, d] with d > 0; a final   *)
(* score is kept in units of 1/10000 (the weights are in hundredths).      *)
(***************************************************************************)
EXTENDS Integers, Sequences, FiniteSets, TLC

VARIABLES pc, q, k, vector_response, text_response, calls, candidates,
          results, response, model, cache, embed_call, fn_args, fn_result

vars == <<pc, q, k, vector_response, text_response, calls, candidates,
          results, response, model, cache, embed_call, fn_args, fn_result>>

searchVars == <<pc, q, k, vector_response, text_response, calls, candidates,
                results, response>>

embedVars == <<model, cache, embed_call>>

\* a helper function called on its own: its arguments and what it returned
pureVars == <<fn_args, fn_result>>

(***************************************************************************)
(* Bounds of the model                                                     *)
(***************************************************************************)
\* largest numerator, in absolute value, of a raw score given to a helper
MaxRaw == 2
\* longest token sequence given to a helper
MaxTokens == 2
\* longest hit list a backend response carries
MaxHits == 2
\* capacity of the embedding cache in the model (lru_cache(maxsize=1000) in
\* the source, scaled down so that eviction happens)
CacheCapacity == 2

(***************************************************************************)
(* Program constants                                                       *)
(***************************************************************************)
\* weights, in hundredths
VECTOR_WEIGHT == 40
KEYWORD_WEIGHT == 60
PHRASE_WEIGHT == 15
FUZZY_WEIGHT == 5
\* search(): k < 1 or k > 50
MinK == 1
MaxK == 50

\* h.get("_id") of a hit that carries no _id
None == "<None>"

(***************************************************************************)
(* Text                                                                    *)
(***************************************************************************)
LowerChar(c) ==
    CASE c = "A" -> "a" [] c = "B" -> "b" [] c = "C" -> "c" [] c = "D" -> "d"
    [] c = "E" -> "e" [] c = "F" -> "f" [] c = "G" -> "g" [] c = "H" -> "h" []
    c = "I" -> "i" [] c = "J" -> "j" [] c = "K" -> "k" [] c = "L" -> "l" [] c
    = "M" -> "m" [] c = "N" -> "n" [] c = "O" -> "o" [] c = "P" -> "p" [] c =
    "Q" -> "q" [] c = "R" -> "r" [] c = "S" -> "s" [] c = "T" -> "t" [] c =
    "U" -> "u" [] c = "V" -> "v" [] c = "W" -> "w" [] c = "X" -> "x" [] c =
    "Y" -> "y" [] c = "Z" -> "z" [] OTHER -> c

\* str.lower()
Lower(s) == [i \in DOMAIN s |-> LowerChar(s[i])]

\* the whitespace str.strip() removes, as far as the inputs carry it
IsSpace(c) == c \in {" ", "\t", "\n"}

RECURSIVE LStrip(_)
LStrip(s) == IF s # <<>> /\ IsSpace(Head(s)) THEN LStrip(Tail(s)) ELSE s

RECURSIVE RStrip(_)
RStrip(s) ==
    IF s # <<>> /\ IsSpace(s[Len(s)]) THEN RStrip(SubSeq(s, 1, Len(s) - 1)) ELSE s

\* str.strip()
Strip(s) == RStrip(LStrip(s))

\* needle in hay
Contains(hay, needle) ==
    \E i \in 0..(Len(hay) - Len(needle)) : SubSeq(hay, i + 1, i + Len(needle)) = needle

\* TOKEN_RE = [a-z0-9]+
TokenChars ==
    {"a", "b", "c", "d", "e", "f", "g", "h", "i", "j", "k", "l", "m", "n", "o",
     "p", "q", "r", "s", "t", "u", "v", "w", "x", "y", "z",
     "0", "1", "2", "3", "4", "5", "6", "7", "8", "9"}

\* TOKEN_RE.findall(s): the maximal runs of token characters, left to right;
\* cur is the run being read
RECURSIVE FindAll(_, _)
FindAll(s, cur) ==
    IF s = <<>> THEN (IF cur = <<>> THEN <<>> ELSE <<cur>>)
    ELSE IF Head(s) \in TokenChars THEN FindAll(Tail(s), Append(cur, Head(s)))
    ELSE (IF cur = <<>> THEN <<>> ELSE <<cur>>) \o FindAll(Tail(s), <<>>)

tokenize(text) == FindAll(Lower(text), <<>>)

STOPWORDS ==
    {<<"t", "h", "e">>, <<"a">>, <<"a", "n">>, <<"o", "f">>, <<"f", "o", "r">>,
     <<"a", "n", "d">>, <<"t", "o">>, <<"i", "n">>, <<"o", "n">>,
     <<"w", "i", "t", "h">>}

SelectSeqNotIn(s, S) == SelectSeq(s, LAMBDA t : t \notin S)

\* variant of ContentTokens: the stopwords removed, with no return to the
\* unfiltered tokens
ContentTokensNoFallback(q0) == SelectSeqNotIn(tokenize(q0), STOPWORDS)

\* lines 668-671
ContentTokens(q0) ==
    LET query_tokens == tokenize(q0)
        content_tokens == SelectSeqNotIn(query_tokens, STOPWORDS)
    IN  IF content_tokens = <<>> THEN query_tokens ELSE content_tokens

SeqToSet(s) == {s[i] : i \in DOMAIN s}

(***************************************************************************)
(* Exact rationals                                                         *)
(***************************************************************************)
Rat(n, d) == [n |-> n, d |-> d]
RatAdd(a, b) == [n |-> a.n * b.d + b.n * a.d, d |-> a.d * b.d]
RatScale(c, a) == [n |-> c * a.n, d |-> a.d]
RatLess(a, b) == a.n * b.d < b.n * a.d
RatEq(a, b) == a.n * b.d = b.n * a.d
\* a / b for b > 0
RatDiv(a, b) == [n |-> a.n * b.d, d |-> a.d * b.n]
\* max() of a non-empty collection of scores
RatMax(S) == CHOOSE m \in S : \A x \in S : ~RatLess(m, x)

\* variant of Round4: round(x, 2), halves upwards
Round2(a) == 100 * ((a.n + 50 * a.d) \div (100 * a.d))

\* round(x, 4) of a value held in units of 1/10000: the nearest integer,
\* halves to the even one
Round4(a) ==
    LET fl == a.n \div a.d
        r2 == 2 * (a.n % a.d)
    IN  IF r2 < a.d THEN fl
        ELSE IF r2 > a.d THEN fl + 1
        ELSE IF fl % 2 = 0 THEN fl ELSE fl + 1

Max(a, b) == IF a >= b THEN a ELSE b


Min(a, b) == IF a <= b THEN a ELSE b

(***************************************************************************)
(* Inputs: requests and backend responses                                  *)
(***************************************************************************)
\* queries a request may carry: "", " \t", "B c", " a "
Queries == {<<>>, <<" ", "\t">>, <<"B", " ", "c">>, <<" ", "a", " ">>}
KValues == {0, 1, 2, 50, 51}

\* titles a hit may carry: "b c d", "C-a"
TitleBCD == <<"b", " ", "c", " ", "d">>
TitleCA == <<"C", "-", "a">>

\* one element of hits.hits of an OpenSearch response: _id, _score, _source.title
Hit(doc_id, raw_score, title) == [id |-> doc_id, score |-> raw_score, title |-> title]

\* the hits a backend may return: one without _id, document 1 as either backend
\* may report it (the two disagree on score and title), documents 2 and 3 alike
Hits ==
    {Hit(None, Rat(2, 1), TitleBCD), Hit("1", Rat(2, 1), TitleBCD),
     Hit("1", Rat(1, 1), TitleCA), Hit("2", Rat(1, 1), TitleCA),
     Hit("3", Rat(1, 1), TitleCA)}
HitLists == UNION {[1..n -> Hits] : n \in 0..MaxHits}

\* requests.post raising requests.RequestException (timeout, transport error)
RequestException == [raised |-> "RequestException"]
\* a response object: status_code and json().hits.hits
Responses ==
    {[status_code |-> 200, hits |-> hl] : hl \in HitLists}
        \cup {[status_code |-> 500, hits |-> <<>>]}
PostOutcomes == Responses \cup {RequestException}

NoResponse == [status_code |-> 0, hits |-> <<>>]
NoReply == [status |-> 0, detail |-> "", body |-> <<>>]

\* lines 598-610: the body posted as the "vector" request
vector_body(q0) == [size |-> 50, query |-> [kind |-> "bool_should_title", text |-> q0]]
\* lines 613-625: the body posted as the lexical request
text_body(q0) == [size |-> 50, query |-> [kind |-> "bool_should_title", text |-> q0]]

(***************************************************************************)
(* Score normalisation                                                     *)
(***************************************************************************)
\* variant of normalized_knn_score: 1 / (1 + max(raw_score, 0)), the score of
\* a distance
InverseDistanceScore(raw_score) == Rat(raw_score.d, raw_score.d + Max(raw_score.n, 0))

\* raw_score / (1.0 + max(raw_score, 0.0)), for raw_score = n / d
normalized_knn_score(raw_score) == Rat(raw_score.n, raw_score.d + Max(raw_score.n, 0))

\* variant of jaccard_similarity: the intersection over the first set
OverlapOfFirst(a_tokens, b_tokens) ==
    LET a_set == SeqToSet(a_tokens)
        b_set == SeqToSet(b_tokens)
    IN  IF a_set = {} \/ b_set = {} THEN Rat(0, 1)
        ELSE Rat(Cardinality(a_set \cap b_set), Cardinality(a_set))

jaccard_similarity(a_tokens, b_tokens) ==
    LET a_set == SeqToSet(a_tokens)
        b_set == SeqToSet(b_tokens)
    IN  IF a_set = {} \/ b_set = {} THEN Rat(0, 1)
        ELSE Rat(Cardinality(a_set \cap b_set), Cardinality(a_set \cup b_set))

MaxOf(S) == CHOOSE m \in S : \A x \in S : x <= m

normalize_text_score(scores_by_id) ==
    IF DOMAIN scores_by_id = {} THEN scores_by_id
    ELSE LET max_score == RatMax({scores_by_id[d] : d \in DOMAIN scores_by_id})
         IN  IF max_score.n <= 0 THEN [d \in DOMAIN scores_by_id |-> Rat(0, 1)]
             ELSE [d \in DOMAIN scores_by_id |-> RatDiv(scores_by_id[d], max_score)]

\* `if h.get("_id")`: None and "" are falsy
Truthy(doc_id) == doc_id # None /\ doc_id # ""

\* {h.get("_id"): h.get("_score", 0) for h in hits if h.get("_id")}: a later
\* hit of the same id overwrites an earlier one
ScoresById(hits) ==
    LET ids == {hits[i].id : i \in {j \in DOMAIN hits : Truthy(hits[j].id)}}
        last(d) == MaxOf({i \in DOMAIN hits : hits[i].id = d})
    IN  [d \in ids |-> hits[last(d)].score]

\* dict.get(doc_id, 0.0)
GetOr0(m, doc_id) == IF doc_id \in DOMAIN m THEN m[doc_id] ELSE Rat(0, 1)

(***************************************************************************)
(* Candidate merge, lines 662-666 (repeated at 673-677)                    *)
(***************************************************************************)
CandidateIds(cands) == {cands[i].id : i \in DOMAIN cands}

\* the loop body: insert h under its id unless the id is falsy or present
InsertCandidate(cands, h) ==
    IF Truthy(h.id) /\ h.id \notin CandidateIds(cands) THEN Append(cands, h) ELSE cands

RECURSIVE MergeInto(_, _)
MergeInto(cands, hits) ==
    IF hits = <<>> THEN cands
    ELSE MergeInto(InsertCandidate(cands, Head(hits)), Tail(hits))

\* variant of MergeCandidates: for h in text_hits + vector_hits
MergeCandidatesLexicalFirst(vector_hits, text_hits) == MergeInto(<<>>, text_hits \o vector_hits)

\* variant of MergeCandidates: the lexical hits are left out
MergeCandidatesVectorOnly(vector_hits, text_hits) == MergeInto(<<>>, vector_hits)

\* for h in vector_hits + text_hits
MergeCandidates(vector_hits, text_hits) == MergeInto(<<>>, vector_hits \o text_hits)


(***************************************************************************)
(* Scoring of one candidate, lines 679-722                                 *)
(***************************************************************************)
\* variant of PhraseMatch: neither side is lowercased
PhraseMatchCaseSensitive(q0, title) == Contains(title, q0)

\* lines 695 and 702
PhraseMatch(q0, title) == Contains(Lower(title), Lower(q0))

\* lines 688-692 and 698-700
KeywordScore(q0, content_tokens, title) ==
    LET title_token_set == SeqToSet(tokenize(title))
        content_matches == SelectSeq(content_tokens, LAMBDA t : t \in title_token_set)
        keyword_matches == Len(content_matches)
        keyword_score == Rat(keyword_matches, Max(Len(content_tokens), 1))
    IN  IF PhraseMatch(q0, title) THEN RatAdd(keyword_score, Rat(1, 1)) ELSE keyword_score

\* lines 704-722: the four components (units of 1/10000), their sum and
\* the entry appended to results
ScoreCandidate(q0, content_tokens, h, vector_scores, text_scores) ==
    LET title == h.title
        vector_score == GetOr0(vector_scores, h.id)
        lexical_score == GetOr0(text_scores, h.id)
        keyword_score == KeywordScore(q0, content_tokens, title)
        fuzzy_score == jaccard_similarity(content_tokens, tokenize(title))
        phrase_boost == IF PhraseMatch(q0, title) THEN 1 ELSE 0
        semantic_component == RatScale(VECTOR_WEIGHT * 100, vector_score)
        lexical_component ==
            RatScale(KEYWORD_WEIGHT,
                     RatAdd(RatScale(65, lexical_score), RatScale(35, keyword_score)))
        phrase_component == Rat(PHRASE_WEIGHT * 100 * phrase_boost, 1)
        fuzzy_component == RatScale(FUZZY_WEIGHT * 100, fuzzy_score)
        final_score ==
            RatAdd(RatAdd(semantic_component, lexical_component),
                   RatAdd(phrase_component, fuzzy_component))
    IN  [id |-> h.id,
         title |-> title,
         score |-> final_score,
         explain |-> [semantic |-> Round4(semantic_component),
                      lexical |-> Round4(lexical_component),
                      phrase |-> Round4(phrase_component),
                      fuzzy |-> Round4(fuzzy_component)]]

\* lines 646-722: the scored entries in candidate order
ScoreAll(q0, cands, vector_hits, text_hits) ==
    LET text_scores == normalize_text_score(ScoresById(text_hits))
        raw_vector == ScoresById(vector_hits)
        vector_scores == [d \in DOMAIN raw_vector |-> normalized_knn_score(raw_vector[d])]
        content_tokens == ContentTokens(q0)
    IN  [i \in DOMAIN cands |->
            ScoreCandidate(q0, content_tokens, cands[i], vector_scores, text_scores)]

(***************************************************************************)
(* Sort and truncate, lines 724-727                                        *)
(***************************************************************************)
\* variant of InsertDesc: r goes before the first entry that is not of higher
\* score, which reverses entries of equal score
InsertDescUnstable(sorted, r) ==
    LET notHigher == {i \in DOMAIN sorted : ~RatLess(r.score, sorted[i].score)}
        at == IF notHigher = {} THEN Len(sorted) + 1
              ELSE CHOOSE i \in notHigher : \A j \in notHigher : i <= j
    IN  SubSeq(sorted, 1, at - 1) \o <<r>> \o SubSeq(sorted, at, Len(sorted))

\* r goes before the first entry of lower score: entries of equal score keep
\* their order of arrival
InsertDesc(sorted, r) ==
    LET lower == {i \in DOMAIN sorted : RatLess(sorted[i].score, r.score)}
        at == IF lower = {} THEN Len(sorted) + 1
              ELSE CHOOSE i \in lower : \A j \in lower : i <= j
    IN  SubSeq(sorted, 1, at - 1) \o <<r>> \o SubSeq(sorted, at, Len(sorted))

RECURSIVE SortInto(_, _)
SortInto(sorted, rest) ==
    IF rest = <<>> THEN sorted ELSE SortInto(InsertDesc(sorted, Head(rest)), Tail(rest))

\* sorted(results, key=lambda x: x["score"], reverse=True)
SortedByScoreDesc(rs) == SortInto(<<>>, rs)

\* variant of Truncate: results[:k + 1]
TruncateOneMore(rs, k0) == SubSeq(rs, 1, Min(k0 + 1, Len(rs)))

\* results[:k], for k >= 1
Truncate(rs, k0) == SubSeq(rs, 1, Min(k0, Len(rs)))

(***************************************************************************)
(* The /search handler                                                     *)
(***************************************************************************)
\* variant of BlankQuery: the query is not stripped
BlankQueryUnstripped(q0) == q0 = <<>>

\* line 590
BlankQuery(q0) == q0 = <<>> \/ Strip(q0) = <<>>
\* variant of BadK: the upper limit itself is refused
BadKExclusiveUpper(k0) == k0 < MinK \/ k0 >= MaxK

\* line 592
BadK(k0) == k0 < MinK \/ k0 > MaxK

HTTPException(code, text) == [status |-> code, detail |-> text, body |-> <<>>]

\* whether the handler goes on after a post, lines 627-637 and 729-731
PostRaises(r) == r = RequestException

\* lines 639-644: the error status checks, in the order of the source
StatusFailure(vr, tr) ==
    IF vr.status_code >= 400 THEN "vector"
    ELSE IF tr.status_code >= 400 THEN "text"
    ELSE "none"

\* no helper call in hand, and a call that has not returned
NoCall == [f |-> "none"]
NoResult == [returned |-> FALSE]

InitService ==
    /\ pc = "idle"
    /\ q = <<>>
    /\ k = 0
    /\ vector_response = NoResponse
    /\ text_response = NoResponse
    /\ calls = <<>>
    /\ candidates = <<>>
    /\ results = <<>>
    /\ response = NoReply
    /\ model = "None"
    /\ cache = <<>>
    /\ embed_call = [q |-> <<>>, provider |-> "not_invoked", outcome |-> "none",
                     value |-> <<>>, invoked |-> 0]

Init ==
    /\ InitService
    /\ fn_args = NoCall
    /\ fn_result = NoResult

\* a request arrives and is validated, lines 589-595
Receive(q0, k0) ==
    /\ pc = "idle"
    /\ q' = q0
    /\ k' = k0
    /\ IF BlankQuery(q0)
       THEN /\ response' = HTTPException(400, "Query cannot be empty")
            /\ pc' = "done"
       ELSE IF BadK(k0)
       THEN /\ response' = HTTPException(400, "k must be between 1 and 50")
            /\ pc' = "done"
       ELSE /\ response' = response
            /\ pc' = "post_vector"
    /\ UNCHANGED <<vector_response, text_response, calls, candidates, results>>
    /\ UNCHANGED embedVars
    /\ UNCHANGED pureVars

\* the first requests.post, lines 628-632
PostVector(r) ==
    /\ pc = "post_vector"
    /\ calls' = Append(calls, [to |-> "vector_response", json |-> vector_body(q)])
    /\ IF PostRaises(r)
       THEN /\ response' = HTTPException(500, "RequestException")
            /\ pc' = "done"
            /\ UNCHANGED vector_response
       ELSE /\ vector_response' = r
            /\ pc' = "post_text"
            /\ UNCHANGED response
    /\ UNCHANGED <<q, k, text_response, candidates, results>>
    /\ UNCHANGED embedVars
    /\ UNCHANGED pureVars

\* the second requests.post and the rest of the handler, lines 633-731
PostText(r) ==
    /\ pc = "post_text"
    /\ calls' = Append(calls, [to |-> "text_response", json |-> text_body(q)])
    /\ pc' = "done"
    /\ IF PostRaises(r)
       THEN /\ response' = HTTPException(500, "RequestException")
            /\ UNCHANGED <<text_response, candidates, results>>
       ELSE /\ text_response' = r
            /\ IF StatusFailure(vector_response, r) # "none"
               THEN /\ response' = HTTPException(500, StatusFailure(vector_response, r))
                    /\ UNCHANGED <<candidates, results>>
               ELSE LET cands == MergeCandidates(vector_response.hits, r.hits)
                        ranked == SortedByScoreDesc(
                                      ScoreAll(q, cands, vector_response.hits, r.hits))
                    IN  /\ candidates' = cands
                        /\ results' = ranked
                        /\ response' = [status |-> 200, detail |-> "",
                                        body |-> Truncate(ranked, k)]
    /\ UNCHANGED <<q, k, vector_response>>
    /\ UNCHANGED embedVars
    /\ UNCHANGED pureVars

\* the reply has been sent; the per-request values are dropped
Return ==
    /\ pc = "done"
    /\ pc' = "idle"
    /\ q' = <<>>
    /\ k' = 0
    /\ vector_response' = NoResponse
    /\ text_response' = NoResponse
    /\ calls' = <<>>
    /\ candidates' = <<>>
    /\ results' = <<>>
    /\ response' = NoReply
    /\ UNCHANGED embedVars
    /\ UNCHANGED pureVars

Next ==
    \/ \E q0 \in Queries, k0 \in KValues : Receive(q0, k0)
    \/ \E r \in PostOutcomes : PostVector(r)
    \/ \E r \in PostOutcomes : PostText(r)
    \/ Return

Spec == Init /\ [][Next]_vars


(***************************************************************************)
(* embed_cached, lines 531-533, and get_model, lines 45-51                 *)
(***************************************************************************)
\* strings embed_cached may be called with: "b", "B", "b ", "c", "d"
EmbedQueries == {<<"b">>, <<"B">>, <<"b", " ">>, <<"c">>, <<"d">>}

\* what the embedding provider does when invoked: the model loads and encodes,
\* loading it raises, or encode raises
ProviderOutcomes == {"ok", "load_error", "encode_error"}

\* model.encode(q).tolist(): one vector per text
Encode(q0) == [embedding_of |-> q0]

\* variant of CacheKey: the key is the lowercased argument
CacheKeyLower(q0) == Lower(q0)

\* lru_cache keys a call by its argument
CacheKey(q0) == q0

\* the cache is the sequence of its entries, least recently used first
CacheKeys(c) == {c[i].key : i \in DOMAIN c}
CacheIndex(c, key) == CHOOSE i \in DOMAIN c : c[i].key = key
CacheWithout(c, key) == SelectSeq(c, LAMBDA e : e.key # key)

\* a hit makes the entry the most recently used one
CacheTouch(c, key) == Append(CacheWithout(c, key), c[CacheIndex(c, key)])

\* a stored result evicts the least recently used entry of a full cache
CacheStore(c, key, value) ==
    LET kept == IF Len(c) >= CacheCapacity THEN Tail(c) ELSE c
    IN  Append(kept, [key |-> key, value |-> value])

\* variant of CacheAfterMiss: the outcome of a failed call is stored too
CacheAfterMissStoresFailure(c, key, outcome, value) == CacheStore(c, key, value)

\* the cache after a miss: a result is stored, an exception is not
CacheAfterMiss(c, key, outcome, value) ==
    IF outcome = "ok" THEN CacheStore(c, key, value) ELSE c

\* get_model(): the model is loaded on first use and kept; a load that raises
\* leaves it None
ModelAfterGet(m, outcome) == IF m = "None" /\ outcome = "load_error" THEN "None" ELSE "loaded"

EmbedCached(q0, outcome) ==
    /\ pc = "idle"
    /\ IF CacheKey(q0) \in CacheKeys(cache)
       THEN /\ outcome = "ok"
            /\ cache' = CacheTouch(cache, CacheKey(q0))
            /\ embed_call' = [q |-> q0, provider |-> "not_invoked", outcome |-> "returned",
                              value |-> cache[CacheIndex(cache, CacheKey(q0))].value,
                              invoked |-> 0]
            /\ UNCHANGED model
       ELSE /\ outcome = "load_error" => model = "None"
            /\ model' = ModelAfterGet(model, outcome)
            /\ cache' = CacheAfterMiss(cache, CacheKey(q0), outcome, Encode(q0))
            /\ embed_call' = [q |-> q0, provider |-> outcome,
                              outcome |-> IF outcome = "ok" THEN "returned" ELSE "raised",
                              value |-> IF outcome = "ok" THEN Encode(q0) ELSE <<>>,
                              invoked |-> 1]
    /\ UNCHANGED searchVars
    /\ UNCHANGED pureVars

NextEmbed == \E q0 \in EmbedQueries, outcome \in ProviderOutcomes : EmbedCached(q0, outcome)

SpecEmbed == Init /\ [][NextEmbed]_vars


(***************************************************************************)
(* Properties of the /search handler                                       *)
(***************************************************************************)
\* a query that is empty or made of whitespace only
WhitespaceOnly(q0) == \A i \in DOMAIN q0 : q0[i] \in {" ", "\t", "\n"}
\* the request in hand is one validation has to reject
MustReject == WhitespaceOnly(q) \/ k < 1 \/ k > 50
\* the request in hand has been answered
Answered == pc = "done"
\* a response that carries at least one hit with a document id
HasHit(resp) ==
    resp.status_code = 200 /\ \E i \in DOMAIN resp.hits : resp.hits[i].id \notin {None, ""}
\* the vector call was issued and answered with an error status
VectorCallFailed == Len(calls) = 2 /\ vector_response.status_code >= 400
\* the lexical call was issued and raised, or was answered with an error status
LexicalCallFailed == Len(calls) = 2 /\ text_response.status_code # 200
\* the ids of a list of hits or results, in order
IdsOf(rs) == [i \in DOMAIN rs |-> rs[i].id]

\* C1: a valid request whose vector call fails while the lexical call returns
\* at least one hit is answered 200 with a non-empty result list built from
\* the lexical hits.
C1_VectorFailureFallsBackToLexical ==
    (Answered /\ ~MustReject /\ VectorCallFailed /\ HasHit(text_response))
        => /\ response.status = 200
           /\ response.body # <<>>
           /\ \A i \in DOMAIN response.body :
                 \E j \in DOMAIN text_response.hits :
                     text_response.hits[j].id = response.body[i].id

\* C2: a valid request for which both hit lists are empty is answered with a
\* failure, never with a successful empty list.
C2_BothEmptyIsFailure ==
    (Answered /\ ~MustReject /\ Len(calls) = 2
        /\ vector_response.hits = <<>> /\ text_response.hits = <<>>)
        => response.status # 200

\* C3: an answered request carries status 400 exactly when its query is empty
\* or whitespace-only or its k lies outside 1..50.
C3_InvalidArgumentIff == Answered => (response.status = 400 <=> MustReject)

C3_Witness ==
    /\ Answered
    /\ response.status = 400
    /\ q = <<" ", "\t">>
    /\ k = 50

\* C4: while the request in hand is one validation rejects, no backend call
\* has been issued for it.
C4_NoCallOnRejectedRequest == MustReject => calls = <<>>

C4_Witness ==
    /\ Answered
    /\ response.status = 400
    /\ q = <<"B", " ", "c">>
    /\ k = 51
    /\ calls = <<>>

\* C5: a valid request whose lexical call fails while the vector call returns
\* at least one hit is answered 200 with a non-empty result list.
C5_LexicalFailureFallsBackToVector ==
    (Answered /\ ~MustReject /\ LexicalCallFailed /\ HasHit(vector_response))
        => /\ response.status = 200
           /\ response.body # <<>>

\* C8: the returned list is in descending order of the full-precision score, and
\* entries of equal score are in the order of their ids in the candidate set.
C8_SortedDescendingStable ==
    (Answered /\ response.status = 200) =>
        \A i, j \in DOMAIN response.body :
            i < j =>
                /\ ~RatLess(response.body[i].score, response.body[j].score)
                /\ RatEq(response.body[i].score, response.body[j].score) =>
                      \E a, b \in DOMAIN candidates :
                          /\ a < b
                          /\ candidates[a].id = response.body[i].id
                          /\ candidates[b].id = response.body[j].id

\* three results, the sort moved the first candidate, two of them tie
C8_Witness ==
    /\ Answered
    /\ response.status = 200
    /\ Len(response.body) = 3
    /\ response.body[1].id # candidates[1].id
    /\ \E i, j \in DOMAIN response.body :
          i < j /\ RatEq(response.body[i].score, response.body[j].score)
    /\ \E i, j \in DOMAIN response.body :
          i < j /\ RatLess(response.body[j].score, response.body[i].score)

\* C9: the returned list has min(k, number of candidates) entries, it is the
\* head of the ranking of all candidates, and no candidate left out scores
\* strictly higher than a returned one.
C9_TruncatedToFirstK ==
    (Answered /\ response.status = 200) =>
        /\ Len(response.body) = Min(k, Len(candidates))
        /\ {results[i].id : i \in DOMAIN results} = {candidates[i].id : i \in DOMAIN candidates}
        /\ Len(results) = Len(candidates)
        /\ \A i \in DOMAIN response.body : response.body[i] = results[i]
        /\ \A i \in DOMAIN results :
              i > Len(response.body) =>
                  \A j \in DOMAIN response.body :
                      ~RatLess(response.body[j].score, results[i].score)

\* k cuts the ranking: candidates are left out
C9_Witness ==
    /\ Answered
    /\ response.status = 200
    /\ k = 2
    /\ Len(candidates) = 3
    /\ Len(response.body) = 2

\* C10: candidate ids are pairwise distinct; each candidate is the first hit
\* of its id in the vector hits followed by the lexical hits, and its title
\* is the one returned; a hit without id is neither a candidate nor a result.
C10_MergeFirstOccurrenceWins ==
    (Answered /\ response.status = 200) =>
        LET all == vector_response.hits \o text_response.hits
            first(d) == CHOOSE i \in DOMAIN all :
                            all[i].id = d /\ \A j \in DOMAIN all : all[j].id = d => i <= j
        IN  /\ \A a, b \in DOMAIN candidates :
                  candidates[a].id = candidates[b].id => a = b
            /\ \A a \in DOMAIN candidates :
                  /\ candidates[a].id \notin {None, ""}
                  /\ \E i \in DOMAIN all : all[i].id = candidates[a].id
                  /\ candidates[a] = all[first(candidates[a].id)]
            /\ \A i \in DOMAIN all :
                  all[i].id \notin {None, ""} =>
                      \E a \in DOMAIN candidates : candidates[a].id = all[i].id
            /\ \A i \in DOMAIN response.body :
                  /\ response.body[i].id \notin {None, ""}
                  /\ \E a \in DOMAIN candidates :
                        /\ candidates[a].id = response.body[i].id
                        /\ candidates[a].title = response.body[i].title

\* document 1 comes from both backends with different titles, after a hit
\* without id
C10_Witness ==
    /\ Answered
    /\ response.status = 200
    /\ vector_response.hits = <<Hit(None, Rat(2, 1), TitleBCD), Hit("1", Rat(1, 1), TitleCA)>>
    /\ text_response.hits = <<Hit("1", Rat(2, 1), TitleBCD), Hit("2", Rat(1, 1), TitleCA)>>
    /\ IdsOf(candidates) = <<"1", "2">>
    /\ candidates[1].title = TitleCA

(***************************************************************************)
(* Properties of embed_cached                                              *)
(***************************************************************************)
\* the entries of a cache stored under exactly this string
EntriesFor(c, q0) == {i \in DOMAIN c : c[i].key = q0}

\* C6: a call whose exact string is in the cache returns the stored vector and
\* does not invoke the provider; a call whose string is absent invokes the
\* provider once, and when it returns the entry is in the cache.
C6_Step ==
    LET q0 == embed_call'.q
    IN  IF EntriesFor(cache, q0) # {}
        THEN /\ embed_call'.invoked = 0
             /\ embed_call'.outcome = "returned"
             /\ \A i \in EntriesFor(cache, q0) : embed_call'.value = cache[i].value
        ELSE /\ embed_call'.invoked = 1
             /\ embed_call'.outcome = "returned" =>
                   /\ EntriesFor(cache', q0) # {}
                   /\ \A i \in EntriesFor(cache', q0) : cache'[i].value = embed_call'.value

C6_CacheHitSkipsProvider == [][C6_Step]_vars

\* "b" and "B" are cached as two entries and the last call was a hit
C6_Witness ==
    /\ {cache[i].key : i \in DOMAIN cache} = {<<"b">>, <<"B">>}
    /\ embed_call.invoked = 0
    /\ embed_call.outcome = "returned"
    /\ embed_call.q = <<"B">>
    /\ embed_call.value = Encode(<<"B">>)

\* C7: a call in which the provider fails raises and leaves the cache as it
\* was, without an entry for the query; a call that follows a failed call for
\* the same query invokes the provider.
C7_Step ==
    /\ embed_call'.provider \in {"load_error", "encode_error"} =>
          /\ embed_call'.outcome = "raised"
          /\ cache' = cache
          /\ EntriesFor(cache', embed_call'.q) = {}
    /\ (embed_call.provider \in {"load_error", "encode_error"}
            /\ embed_call'.q = embed_call.q) =>
          embed_call'.invoked = 1

C7_ProviderFailureNotCached == [][C7_Step]_vars

\* the provider failed for "c" with other entries cached, and "c" is not cached
C7_Witness ==
    /\ embed_call.provider = "encode_error"
    /\ embed_call.outcome = "raised"
    /\ embed_call.q = <<"c">>
    /\ Len(cache) = CacheCapacity
    /\ EntriesFor(cache, <<"c">>) = {}

(***************************************************************************)
(* Properties of the merge and of the score breakdown                      *)
(***************************************************************************)
\* the number of distinct document ids among a list of hits
DistinctIds(hits) == Cardinality({hits[i].id : i \in DOMAIN hits} \ {None, ""})

\* C11: the number of merged candidates is at most |L| + |V| and at least the
\* larger of the numbers of distinct ids of L and of V.
C11_MergeCountBounds ==
    (Answered /\ response.status = 200) =>
        /\ Len(candidates) <= Len(text_response.hits) + Len(vector_response.hits)
        /\ Len(candidates) >= DistinctIds(text_response.hits)
        /\ Len(candidates) >= DistinctIds(vector_response.hits)

\* four hits, one id shared by both lists: three candidates, more than either
\* list has ids and fewer than there are hits
C11_Witness ==
    /\ Answered
    /\ response.status = 200
    /\ Len(vector_response.hits) = 2
    /\ Len(text_response.hits) = 2
    /\ DistinctIds(vector_response.hits) = 2
    /\ DistinctIds(text_response.hits) = 2
    /\ Len(candidates) = 3

\* the sum of the four components retained on a result, units of 1/10000
ExplainSum(r) == r.explain.semantic + r.explain.lexical + r.explain.phrase + r.explain.fuzzy

\* C12 as stated: the final score of every result equals the sum of the four
\* components retained on it.
C12_ScoreIsSumOfRetained ==
    (Answered /\ response.status = 200) =>
        \A i \in DOMAIN response.body :
            RatEq(response.body[i].score, Rat(ExplainSum(response.body[i]), 1))

\* C12, amended: the final score of every result and the sum of the four
\* components retained on it, each rounded to 4 decimals, differ by at most
\* 0.0002.
C12_ScoreIsSumUpToRounding ==
    (Answered /\ response.status = 200) =>
        \A i \in DOMAIN response.body :
            /\ ~RatLess(Rat(ExplainSum(response.body[i]) + 2, 1), response.body[i].score)
            /\ ~RatLess(response.body[i].score, Rat(ExplainSum(response.body[i]) - 2, 1))

\* a result whose retained components do not add up to its score, and one
\* whose components do
C12_Witness ==
    /\ Answered
    /\ response.status = 200
    /\ \E i \in DOMAIN response.body :
          ~RatEq(response.body[i].score, Rat(ExplainSum(response.body[i]), 1))
    /\ \E i \in DOMAIN response.body :
          /\ RatEq(response.body[i].score, Rat(ExplainSum(response.body[i]), 1))
          /\ response.body[i].explain.fuzzy > 0
          /\ response.body[i].explain.semantic > 0

(***************************************************************************)
(* The helper functions called on their own                                *)
(***************************************************************************)
\* raw scores: whole and half values, negative, zero and positive
RawScores == {Rat(n, d) : n \in (0 - MaxRaw)..MaxRaw, d \in {1, 2}}
HelperIds == {"1", "2", "3"}
\* scores_by_id: a dict from some ids to raw scores
ScoreMaps == UNION {[S -> RawScores] : S \in SUBSET HelperIds}
\* token sequences over "a", "b", "c"
HelperTokens == {<<"a">>, <<"b">>, <<"c">>}
TokenSeqs == UNION {[1..n -> HelperTokens] : n \in 0..MaxTokens}

\* the pieces queries are made of: stopwords, content words in either
\* case, punctuation and blanks
QueryWords ==
    {<<"t", "h", "e">>, <<"A">>, <<"o", "f">>, <<"R", "e", "d">>, <<"b", "2">>,
     <<"!">>, <<" ">>}

\* " ".join(words)
RECURSIVE JoinWords(_)
JoinWords(words) ==
    IF words = <<>> THEN <<>>
    ELSE IF Len(words) = 1 THEN words[1]
    ELSE words[1] \o <<" ">> \o JoinWords(Tail(words))

\* query texts of up to MaxTokens pieces
QueryTexts == {JoinWords(w) : w \in UNION {[1..n -> QueryWords] : n \in 0..MaxTokens}}

HelperCalls ==
    {[f |-> "normalize_text_score", scores_by_id |-> m] : m \in ScoreMaps}
        \cup {[f |-> "normalized_knn_score", a |-> x, b |-> y] : x, y \in RawScores}
        \cup {[f |-> "jaccard_similarity", a_tokens |-> x, b_tokens |-> y] :
                x, y \in TokenSeqs}
        \cup {[f |-> "content_tokens", q |-> x] : x \in QueryTexts}

InitHelper ==
    /\ InitService
    /\ fn_args \in HelperCalls
    /\ fn_result = NoResult

Returned(value) == [returned |-> TRUE, value |-> value]

CallNormalizeTextScore ==
    /\ fn_args.f = "normalize_text_score"
    /\ fn_result = NoResult
    /\ fn_result' = Returned(normalize_text_score(fn_args.scores_by_id))
    /\ UNCHANGED <<searchVars, embedVars, fn_args>>

\* the function applied to each of two raw scores
CallNormalizedKnnScore ==
    /\ fn_args.f = "normalized_knn_score"
    /\ fn_result = NoResult
    /\ fn_result' = Returned([a |-> normalized_knn_score(fn_args.a),
                              b |-> normalized_knn_score(fn_args.b)])
    /\ UNCHANGED <<searchVars, embedVars, fn_args>>

\* the function applied to (A, B), to (B, A) and to (A, A)
CallJaccardSimilarity ==
    /\ fn_args.f = "jaccard_similarity"
    /\ fn_result = NoResult
    /\ fn_result' = Returned([ab |-> jaccard_similarity(fn_args.a_tokens, fn_args.b_tokens),
                              ba |-> jaccard_similarity(fn_args.b_tokens, fn_args.a_tokens),
                              aa |-> jaccard_similarity(fn_args.a_tokens, fn_args.a_tokens)])
    /\ UNCHANGED <<searchVars, embedVars, fn_args>>

\* lines 668-671 applied to a query text
CallContentTokens ==
    /\ fn_args.f = "content_tokens"
    /\ fn_result = NoResult
    /\ fn_result' = Returned(ContentTokens(fn_args.q))
    /\ UNCHANGED <<searchVars, embedVars, fn_args>>

NextHelper ==
    \/ CallNormalizeTextScore
    \/ CallNormalizedKnnScore
    \/ CallJaccardSimilarity
    \/ CallContentTokens

SpecHelper == InitHelper /\ [][NextHelper]_vars

(***************************************************************************)
(* Properties of the helper functions                                      *)
(***************************************************************************)
HasReturned(f) == fn_args.f = f /\ fn_result.returned

\* C13: the normalised lexical scores of a non-empty mapping lie in [0, 1];
\* the id holding a positive maximum gets exactly 1; with a maximum <= 0
\* every value is 0; the empty mapping gives the empty mapping.
C13_LexicalNormalizationRange ==
    HasReturned("normalize_text_score") =>
        LET in == fn_args.scores_by_id
            out == fn_result.value
            top == {d \in DOMAIN in : \A e \in DOMAIN in : ~RatLess(in[d], in[e])}
        IN  /\ DOMAIN out = DOMAIN in
            /\ \A d \in DOMAIN out :
                  ~RatLess(out[d], Rat(0, 1)) /\ ~RatLess(Rat(1, 1), out[d])
            /\ \A d \in top : in[d].n > 0 => RatEq(out[d], Rat(1, 1))
            /\ \A d \in top : in[d].n <= 0 => \A e \in DOMAIN out : out[e].n = 0

\* C14: normalized_knn_score is non-decreasing over negative, zero and
\* positive raw scores, and maps 0 to 0.
C14_KnnMonotonic ==
    HasReturned("normalized_knn_score") =>
        /\ ~RatLess(fn_args.b, fn_args.a) => ~RatLess(fn_result.value.b, fn_result.value.a)
        /\ fn_args.a.n = 0 => fn_result.value.a.n = 0

\* a negative and a positive raw score: -1/2 stays -1/2, 1/2 becomes 1/3
C14_Witness ==
    /\ HasReturned("normalized_knn_score")
    /\ fn_args.a = Rat(0 - 1, 2)
    /\ fn_args.b = Rat(1, 2)
    /\ RatEq(fn_result.value.a, Rat(0 - 1, 2))
    /\ RatEq(fn_result.value.b, Rat(1, 3))

\* C15: jaccard_similarity(A, B) = jaccard_similarity(B, A); it is 1 for
\* (A, A) with A non-empty and 0 when A or B is empty.
C15_JaccardSymmetric ==
    HasReturned("jaccard_similarity") =>
        /\ RatEq(fn_result.value.ab, fn_result.value.ba)
        /\ fn_args.a_tokens # <<>> => RatEq(fn_result.value.aa, Rat(1, 1))
        /\ (fn_args.a_tokens = <<>> \/ fn_args.b_tokens = <<>>) => fn_result.value.ab.n = 0

\* A = [b, c] with B = [c]: one half, both ways
C15_Witness ==
    /\ HasReturned("jaccard_similarity")
    /\ fn_args.a_tokens = <<<<"b">>, <<"c">>>>
    /\ fn_args.b_tokens = <<<<"c">>>>
    /\ RatEq(fn_result.value.ab, Rat(1, 2))
    /\ RatEq(fn_result.value.ba, Rat(1, 2))

(***************************************************************************)
(* Properties of the two retrieval requests                                *)
(***************************************************************************)
\* the posts issued for the request in hand whose response goes to `to`
CallsTo(to) == {i \in DOMAIN calls : calls[i].to = to}

\* C16: for every request that passes validation the lexical request is
\* posted exactly once, whatever becomes of the vector request.
C16_LexicalCallIssuedOnce ==
    (Answered /\ ~MustReject) => Cardinality(CallsTo("text_response")) = 1

\* C17: the vector request is a KNN request made after an embedding lookup of
\* the query and differs from the lexical request; the semantic component of
\* a result without vector hit is 0.
C17_VectorRequestIsKnn ==
    /\ \A i \in CallsTo("vector_response") :
          /\ calls[i].json.query.kind = "knn"
          /\ calls[i].json # text_body(q)
          /\ embed_call.outcome = "returned"
          /\ embed_call.q = q
    /\ (Answered /\ response.status = 200) =>
          \A i \in DOMAIN response.body :
              (\A j \in DOMAIN vector_response.hits :
                    vector_response.hits[j].id # response.body[i].id)
                  => response.body[i].explain.semantic = 0

(***************************************************************************)
(* The search of the spec's scenario: lexical hits 1 (score 4.0, "Black    *)
(* Leather Biker Jacket") and 2 (score 1.0, "Blue Summer Dress"), vector   *)
(* hit 1 (score 0.9, the title of document 1)                              *)
(***************************************************************************)
\* "black leather biker jacket"
BlackLeatherBikerJacket ==
    <<"b", "l", "a", "c", "k", " ", "l", "e", "a", "t", "h", "e", "r", " ",
    "b", "i", "k", "e", "r", " ", "j", "a", "c", "k", "e", "t">>
\* "Leather Biker"
LeatherBiker ==
    <<"L", "e", "a", "t", "h", "e", "r", " ", "B", "i", "k", "e", "r">>
\* "summer summer red"
SummerSummerRed ==
    <<"s", "u", "m", "m", "e", "r", " ", "s", "u", "m", "m", "e", "r", " ",
    "r", "e", "d">>
\* "Black Leather Biker Jacket"
TitleBlackLeatherBikerJacket ==
    <<"B", "l", "a", "c", "k", " ", "L", "e", "a", "t", "h", "e", "r", " ",
    "B", "i", "k", "e", "r", " ", "J", "a", "c", "k", "e", "t">>
\* "Blue Summer Dress"
TitleBlueSummerDress ==
    <<"B", "l", "u", "e", " ", "S", "u", "m", "m", "e", "r", " ", "D", "r",
    "e", "s", "s">>
ScenarioQueries == {BlackLeatherBikerJacket, LeatherBiker, SummerSummerRed}

ScenarioTextResponse ==
    [status_code |-> 200,
     hits |-> <<Hit("1", Rat(4, 1), TitleBlackLeatherBikerJacket),
                Hit("2", Rat(1, 1), TitleBlueSummerDress)>>]
ScenarioVectorResponse ==
    [status_code |-> 200,
     hits |-> <<Hit("1", Rat(9, 10), TitleBlackLeatherBikerJacket)>>]

NextScenario ==
    \/ \E q0 \in ScenarioQueries, k0 \in MinK..MaxK : Receive(q0, k0)
    \/ PostVector(ScenarioVectorResponse)
    \/ PostText(ScenarioTextResponse)
    \/ Return

SpecScenario == Init /\ [][NextScenario]_vars

(***************************************************************************)
(* Properties of the score components                                      *)
(***************************************************************************)
\* the tokens of a set of tokens found in a title
Overlap(tokens, title) == SeqToSet(tokens) \cap SeqToSet(tokenize(title))
\* the normalised lexical score of a result: its raw lexical score over the
\* largest one, 0 without lexical hit
LexicalScoreOf(r) == GetOr0(normalize_text_score(ScoresById(text_response.hits)), r.id)
\* KEYWORD_WEIGHT x (0.65 x lexical_score + 0.35 x ratio), rounded as retained
LexicalComponent(lexical_score, ratio) ==
    Round4(RatScale(KEYWORD_WEIGHT, RatAdd(RatScale(65, lexical_score), RatScale(35, ratio))))

\* C18: a result whose title shares no token with the content tokens has the
\* lexical component KEYWORD_WEIGHT x (0.65 x lexical_score + 0.35 x (0 - 0.5))
\* when the query has at least 2 content tokens, and
\* KEYWORD_WEIGHT x 0.65 x lexical_score otherwise.
C18_ZeroOverlapPenalty ==
    (Answered /\ response.status = 200) =>
        \A i \in DOMAIN response.body :
            LET r == response.body[i]
            IN  Overlap(ContentTokens(q), r.title) = {} =>
                    r.explain.lexical =
                        LexicalComponent(LexicalScoreOf(r),
                            IF Len(ContentTokens(q)) >= 2 THEN Rat(0 - 1, 2) ELSE Rat(0, 1))

\* C19: a result whose title shares a token with the content tokens has the
\* lexical component KEYWORD_WEIGHT x (0.65 x lexical_score + 0.35 x r), with
\* r the number of distinct content tokens found in the title over the number
\* of distinct content tokens.
C19_LexicalComponentFormula ==
    (Answered /\ response.status = 200) =>
        \A i \in DOMAIN response.body :
            LET r == response.body[i]
                shared == Overlap(ContentTokens(q), r.title)
            IN  shared # {} =>
                    r.explain.lexical =
                        LexicalComponent(LexicalScoreOf(r),
                            Rat(Cardinality(shared),
                                Cardinality(SeqToSet(ContentTokens(q)))))

\* C20: the phrase component of a result is PHRASE_WEIGHT when the lowercased
\* query is a substring of the lowercased title and 0 otherwise; the scenario
\* query ranks document 1 strictly above document 2, with phrase component
\* PHRASE_WEIGHT for document 1.
C20_PhraseComponent ==
    (Answered /\ response.status = 200) =>
        /\ \A i \in DOMAIN response.body :
              response.body[i].explain.phrase =
                  IF Contains(Lower(response.body[i].title), Lower(q))
                  THEN PHRASE_WEIGHT * 100 ELSE 0
        /\ q = BlackLeatherBikerJacket =>
              /\ IdsOf(results) = <<"1", "2">>
              /\ IdsOf(response.body) = SubSeq(<<"1", "2">>, 1, Min(k, 2))
              /\ RatLess(results[2].score, results[1].score)
              /\ results[1].explain.phrase = PHRASE_WEIGHT * 100

\* the scenario with k = 5
C20_Witness ==
    /\ Answered
    /\ response.status = 200
    /\ q = BlackLeatherBikerJacket
    /\ k = 5
    /\ vector_response = ScenarioVectorResponse
    /\ text_response = ScenarioTextResponse
    /\ IdsOf(response.body) = <<"1", "2">>
    /\ response.body[1].explain.phrase = PHRASE_WEIGHT * 100
    /\ response.body[2].explain.phrase = 0

(***************************************************************************)
(* Content tokens                                                          *)
(***************************************************************************)
\* the positions of the tokens of ts that are not stopwords
ContentPositions(ts) == {i \in DOMAIN ts : ts[i] \notin STOPWORDS}

\* out is ts with the stopwords removed: the tokens at the content positions,
\* in their order
IsStopwordFree(out, ts) ==
    /\ Len(out) = Cardinality(ContentPositions(ts))
    /\ \A i \in DOMAIN out :
          \E p \in ContentPositions(ts) :
              /\ Cardinality({r \in ContentPositions(ts) : r <= p}) = i
              /\ out[i] = ts[p]

\* C21, first part: content_tokens(query) is the query's tokens with the
\* stopwords removed, or the unfiltered token sequence when that removal
\* leaves nothing.
C21_FilteredOrUnfiltered ==
    HasReturned("content_tokens") =>
        LET ts == tokenize(fn_args.q)
            out == fn_result.value
        IN  IF ContentPositions(ts) = {} THEN out = ts ELSE IsStopwordFree(out, ts)

\* C21: content_tokens(query) is the query's tokens with the stopwords
\* removed, or the unfiltered tokens when that leaves nothing; for every query
\* accepted by validation (non-empty after trimming) the returned sequence
\* holds at least one token.
C21_ContentTokensNonEmpty ==
    HasReturned("content_tokens") =>
        /\ C21_FilteredOrUnfiltered
        /\ ~BlankQuery(fn_args.q) => Len(fn_result.value) >= 1

\* the lowercased text holds a character of a-z or 0-9
HasTokenChar(text) == \E i \in DOMAIN text : Lower(text)[i] \in TokenChars

\* C21 as amended: content_tokens(query) is the query's tokens with the
\* stopwords removed, or the unfiltered tokens when that leaves nothing; the
\* returned sequence holds at least one token exactly when the lowercased
\* query holds a character of a-z or 0-9, so an accepted query of punctuation
\* only gives the empty sequence.
C21_NonEmptyIffTokenChar ==
    HasReturned("content_tokens") =>
        /\ C21_FilteredOrUnfiltered
        /\ Len(fn_result.value) >= 1 <=> HasTokenChar(fn_args.q)
        /\ \A i \in DOMAIN fn_result.value : fn_result.value[i] # <<>>

\* the query "the A", accepted and made of stopwords only, gives both tokens
C21_Witness ==
    /\ HasReturned("content_tokens")
    /\ fn_args.q = <<"t", "h", "e", " ", "A">>
    /\ ~BlankQuery(fn_args.q)
    /\ fn_result.value = <<<<"t", "h", "e">>, <<"a">>>>

====
